---- MODULE Spec2Model ----
(***************************************************************************)
(* Mergington High School activities API (src/app.py).                     *)
(*                                                                         *)
(* The state is the in-memory dictionary `activities`.  Each action is one *)
(* HTTP request handled to completion: the application's route table       *)
(* selects the endpoint, the endpoint runs, and the response is recorded   *)
(* together with the registry as it was before the request.  A second      *)
(* set of actions runs signup_for_activity in worker threads, one           *)
(* statement of the handler at a time.                                      *)
(***************************************************************************)
EXTENDS Naturals, Sequences, FiniteSets

VARIABLES activities, request, response, before, log, signups, threads

vars == <<activities, request, response, before, log, signups, threads>>

(***************************************************************************)
(* Bounds of the model.                                                    *)
(***************************************************************************)
\* number of distinct student emails the clients use
NumEmails == 2

EmailPool == <<"a@x.edu", "b@x.edu", "c@x.edu", "d@x.edu">>

Emails == {EmailPool[i] : i \in 1..NumEmails}

\* activity names the clients put in the path: two seeded ones and an unknown one
RequestNames == {"Basketball Club", "Tennis Team", "NoSuchClub"}

\* number of worker threads that handle requests at the same time
NumThreads == 2

Threads == 1..NumThreads

(***************************************************************************)
(* The seeded registry.                                                    *)
(***************************************************************************)
SeedNames ==
    {"Basketball Club", "Tennis Team", "Art Studio",
     "Music Band", "Debate Team", "Science Club"}

Seed ==
    [n \in SeedNames |->
        CASE n = "Basketball Club" ->
               [description |-> "Play basketball and improve athletic skills",
                schedule |-> "Mondays and Wednesdays, 4:00 PM - 5:30 PM",
                max_participants |-> 15,
                participants |-> <<>>]
          [] n = "Tennis Team" ->
               [description |-> "Learn tennis techniques and compete in matches",
                schedule |-> "Tuesdays and Thursdays, 3:30 PM - 5:00 PM",
                max_participants |-> 10,
                participants |-> <<>>]
          [] n = "Art Studio" ->
               [description |-> "Explore painting, drawing, and sculpture techniques",
                schedule |-> "Wednesdays, 3:30 PM - 5:00 PM",
                max_participants |-> 18,
                participants |-> <<>>]
          [] n = "Music Band" ->
               [description |-> "Join the school band and perform in concerts",
                schedule |-> "Mondays and Thursdays, 4:00 PM - 5:30 PM",
                max_participants |-> 25,
                participants |-> <<>>]
          [] n = "Debate Team" ->
               [description |-> "Develop argumentation skills and compete in debates",
                schedule |-> "Tuesdays, 3:30 PM - 5:00 PM",
                max_participants |-> 16,
                participants |-> <<>>]
          [] n = "Science Club" ->
               [description |-> "Conduct experiments and explore scientific concepts",
                schedule |-> "Fridays, 3:30 PM - 5:00 PM",
                max_participants |-> 20,
                participants |-> <<>>]]

(***************************************************************************)
(* Python list primitives used by the handlers.                            *)
(***************************************************************************)
\* `x in lst`
Contains(lst, x) == \E i \in 1..Len(lst) : lst[i] = x

\* `lst.count(x)`
Count(lst, x) == Cardinality({i \in 1..Len(lst) : lst[i] = x})

\* `phrase in text` on strings; a string is modelled as the sequence of its
\* words, an interpolated value ({email}, {activity_name}) being one word
IsInfix(phrase, text) ==
    \E i \in 0..Len(text) :
        /\ i + Len(phrase) <= Len(text)
        /\ SubSeq(text, i + 1, i + Len(phrase)) = phrase

(***************************************************************************)
(* Requests and the route table.                                           *)
(***************************************************************************)
\* a path parameter in a route pattern, e.g. {activity_name}
Param == "{activity_name}"

Routes ==
    <<[method |-> "GET", path |-> <<>>, endpoint |-> "root"],
      [method |-> "GET", path |-> <<"activities">>, endpoint |-> "get_activities"],
      [method |-> "POST", path |-> <<"activities", Param, "signup">>,
       endpoint |-> "signup_for_activity"]>>

PathMatches(pattern, path) ==
    /\ Len(pattern) = Len(path)
    /\ \A i \in 1..Len(pattern) : pattern[i] = Param \/ pattern[i] = path[i]

\* the endpoint the application dispatches a request to; a path no route
\* matches is answered 404, a path matched under another method only, 405
Endpoint(req) ==
    IF \E i \in 1..Len(Routes) :
           PathMatches(Routes[i].path, req.path) /\ Routes[i].method = req.method
    THEN Routes[CHOOSE i \in 1..Len(Routes) :
                    PathMatches(Routes[i].path, req.path)
                    /\ Routes[i].method = req.method].endpoint
    ELSE IF \E i \in 1..Len(Routes) : PathMatches(Routes[i].path, req.path)
         THEN "method_not_allowed"
         ELSE "not_found"

NoRequest == [method |-> "", path |-> <<>>, email |-> ""]

RootRequest == [method |-> "GET", path |-> <<>>, email |-> ""]

ListRequest == [method |-> "GET", path |-> <<"activities">>, email |-> ""]

SignupRequest(name, email) ==
    [method |-> "POST", path |-> <<"activities", name, "signup">>, email |-> email]

UnregisterRequest(name, email) ==
    [method |-> "DELETE", path |-> <<"activities", name, "unregister">>, email |-> email]

\* the activity_name path parameter of a request (second path segment)
ActivityName(req) == IF Len(req.path) > 1 THEN req.path[2] ELSE ""

(***************************************************************************)
(* Responses.                                                              *)
(***************************************************************************)
NoBody == [n \in {} |-> <<>>]

Reply(status, detail, message, location, body) ==
    [status |-> status, detail |-> detail, message |-> message,
     location |-> location, body |-> body]

NoResponse == Reply(0, <<>>, <<>>, "", NoBody)

\* raise HTTPException(status_code, detail)
HTTPException(status, detail) == Reply(status, detail, <<>>, "", NoBody)

ActivityNotFound == <<"Activity", "not", "found">>

AlreadySignedUp == <<"Student", "already", "signed", "up", "for", "this", "activity">>

\* the detail of the framework's own 404, sent when no route matches
NotFound == <<"Not", "Found">>

\* a worker thread: the statement it is at, its request, the participants
\* list as its duplicate check read it, and its response
Thread(pc, name, email, seen, resp) ==
    [pc |-> pc, name |-> name, email |-> email, seen |-> seen, resp |-> resp]

Idle == Thread("idle", "", "", <<>>, NoResponse)

\* e was a participant of the activity the request names, before the request
Member(reg, req) ==
    /\ ActivityName(req) \in DOMAIN reg
    /\ Contains(reg[ActivityName(req)].participants, req.email)

\* the last three exchanges, oldest first
Last3(s) == IF Len(s) > 3 THEN SubSeq(s, Len(s) - 2, Len(s)) ELSE s

\* the emails whose signup was confirmed (answered 200), per activity, in the
\* order of the confirmations
Confirmed(sofar, req, resp) ==
    IF /\ Endpoint(req) = "signup_for_activity"
       /\ resp.status = 200
       /\ ActivityName(req) \in DOMAIN sofar
    THEN [sofar EXCEPT ![ActivityName(req)] = Append(@, req.email)]
    ELSE sofar

\* bookkeeping common to every request: remember the request, the response,
\* and the registry as it was when the request arrived
Exchange(req, resp) ==
    /\ request' = req
    /\ response' = resp
    /\ before' = activities
    /\ signups' = Confirmed(signups, req, resp)

\* a client that keeps the outcome of its last three requests
Logged ==
    log' = Last3(Append(log, [request |-> request', status |-> response'.status,
                              member |-> Member(before', request')]))

(***************************************************************************)
(* Initial state: the module-level dictionary as app.py builds it.         *)
(***************************************************************************)
Init ==
    /\ activities = Seed
    /\ request = NoRequest
    /\ response = NoResponse
    /\ before = Seed
    /\ log = <<>>
    /\ signups = [n \in SeedNames |-> <<>>]
    /\ threads = [t \in Threads |-> Idle]

(***************************************************************************)
(* Endpoints.                                                              *)
(***************************************************************************)
\* a redirect to a page outside the static mount
root_WrongTarget ==
    /\ Endpoint(RootRequest) = "root"
    /\ Exchange(RootRequest, Reply(307, <<>>, <<>>, "/index.html", NoBody))
    /\ UNCHANGED activities

\* GET /
root ==
    /\ Endpoint(RootRequest) = "root"
    /\ Exchange(RootRequest, Reply(307, <<>>, <<>>, "/static/index.html", NoBody))
    /\ UNCHANGED activities

\* a listing served from the seed instead of the live dictionary
get_activities_Stale ==
    /\ Endpoint(ListRequest) = "get_activities"
    /\ Exchange(ListRequest, Reply(200, <<>>, <<>>, "", Seed))
    /\ UNCHANGED activities

\* GET /activities
get_activities ==
    /\ Endpoint(ListRequest) = "get_activities"
    /\ Exchange(ListRequest, Reply(200, <<>>, <<>>, "", activities))
    /\ UNCHANGED activities

SignedUp(email, activity_name) ==
    Reply(200, <<>>, <<"Signed", "up", email, "for", activity_name>>, "", NoBody)

\* a signup that answers success without the append
SignupResult_NoAppend(reg, activity_name, email) ==
    IF activity_name \notin DOMAIN reg
    THEN [resp |-> HTTPException(404, ActivityNotFound), reg |-> reg]
    ELSE IF Contains(reg[activity_name].participants, email)
         THEN [resp |-> HTTPException(400, AlreadySignedUp), reg |-> reg]
         ELSE [resp |-> SignedUp(email, activity_name), reg |-> reg]

\* a signup without the duplicate check
SignupResult_NoDuplicateCheck(reg, activity_name, email) ==
    IF activity_name \notin DOMAIN reg
    THEN [resp |-> HTTPException(404, ActivityNotFound), reg |-> reg]
    ELSE [resp |-> SignedUp(email, activity_name),
          reg |-> [reg EXCEPT ![activity_name].participants = Append(@, email)]]

\* a signup without the existence check: the lookup of an unknown name
\* raises KeyError, which the framework answers with a 500
SignupResult_NoExistenceCheck(reg, activity_name, email) ==
    IF activity_name \notin DOMAIN reg
    THEN [resp |-> HTTPException(500, <<"Internal", "Server", "Error">>), reg |-> reg]
    ELSE IF Contains(reg[activity_name].participants, email)
         THEN [resp |-> HTTPException(400, AlreadySignedUp), reg |-> reg]
         ELSE [resp |-> SignedUp(email, activity_name),
               reg |-> [reg EXCEPT ![activity_name].participants = Append(@, email)]]

\* a signup whose duplicate check looks at every activity's participants
SignupResult_GlobalDuplicateCheck(reg, activity_name, email) ==
    IF activity_name \notin DOMAIN reg
    THEN [resp |-> HTTPException(404, ActivityNotFound), reg |-> reg]
    ELSE IF \E n \in DOMAIN reg : Contains(reg[n].participants, email)
         THEN [resp |-> HTTPException(400, AlreadySignedUp), reg |-> reg]
         ELSE [resp |-> SignedUp(email, activity_name),
               reg |-> [reg EXCEPT ![activity_name].participants = Append(@, email)]]

\* a signup that enforces max_participants
SignupResult_CapacityCheck(reg, activity_name, email) ==
    IF activity_name \notin DOMAIN reg
    THEN [resp |-> HTTPException(404, ActivityNotFound), reg |-> reg]
    ELSE IF Contains(reg[activity_name].participants, email)
         THEN [resp |-> HTTPException(400, AlreadySignedUp), reg |-> reg]
         ELSE IF Len(reg[activity_name].participants)
                    >= reg[activity_name].max_participants
              THEN [resp |-> HTTPException(400, <<"Activity", "is", "full">>),
                    reg |-> reg]
              ELSE [resp |-> SignedUp(email, activity_name),
                    reg |-> [reg EXCEPT ![activity_name].participants =
                                            Append(@, email)]]

\* a signup that keeps max_participants as the number of places left
SignupResult_CountsDown(reg, activity_name, email) ==
    IF activity_name \notin DOMAIN reg
    THEN [resp |-> HTTPException(404, ActivityNotFound), reg |-> reg]
    ELSE IF Contains(reg[activity_name].participants, email)
         THEN [resp |-> HTTPException(400, AlreadySignedUp), reg |-> reg]
         ELSE [resp |-> SignedUp(email, activity_name),
               reg |-> [reg EXCEPT ![activity_name].participants = Append(@, email),
                                   ![activity_name].max_participants = @ - 1]]

\* a signup that enrols the student in every activity
SignupResult_AllActivities(reg, activity_name, email) ==
    IF activity_name \notin DOMAIN reg
    THEN [resp |-> HTTPException(404, ActivityNotFound), reg |-> reg]
    ELSE IF Contains(reg[activity_name].participants, email)
         THEN [resp |-> HTTPException(400, AlreadySignedUp), reg |-> reg]
         ELSE [resp |-> SignedUp(email, activity_name),
               reg |-> [n \in DOMAIN reg |->
                           IF Contains(reg[n].participants, email)
                           THEN reg[n]
                           ELSE [reg[n] EXCEPT !.participants = Append(@, email)]]]

\* a signup that puts the student at the head of the list (insert(0, email))
SignupResult_Prepend(reg, activity_name, email) ==
    IF activity_name \notin DOMAIN reg
    THEN [resp |-> HTTPException(404, ActivityNotFound), reg |-> reg]
    ELSE IF Contains(reg[activity_name].participants, email)
         THEN [resp |-> HTTPException(400, AlreadySignedUp), reg |-> reg]
         ELSE [resp |-> SignedUp(email, activity_name),
               reg |-> [reg EXCEPT ![activity_name].participants = <<email>> \o @]]

\* the response and the new registry of signup_for_activity
SignupResult(reg, activity_name, email) ==
    IF activity_name \notin DOMAIN reg
    THEN [resp |-> HTTPException(404, ActivityNotFound), reg |-> reg]
    ELSE IF Contains(reg[activity_name].participants, email)
         THEN [resp |-> HTTPException(400, AlreadySignedUp),
               reg |-> reg]
         ELSE [resp |-> SignedUp(email, activity_name),
               reg |-> [reg EXCEPT ![activity_name].participants = Append(@, email)]]

\* POST /activities/{activity_name}/signup?email=...
signup_for_activity(activity_name, email) ==
    LET req == SignupRequest(activity_name, email)
        res == SignupResult(activities, activity_name, email)
    IN  /\ Endpoint(req) = "signup_for_activity"
        /\ activities' = res.reg
        /\ Exchange(req, res.resp)

\* DELETE /activities/{activity_name}/unregister?email=... : the application
\* registers no route for it, so the request falls through the route table
unregister(activity_name, email) ==
    LET req == UnregisterRequest(activity_name, email)
    IN  /\ Endpoint(req) = "not_found"
        /\ Exchange(req, HTTPException(404, NotFound))
        /\ UNCHANGED activities

\* requests handled one after the other
Next ==
    \/ root /\ UNCHANGED <<log, threads>>
    \/ get_activities /\ UNCHANGED <<log, threads>>
    \/ \E n \in RequestNames, e \in Emails : signup_for_activity(n, e) /\ UNCHANGED <<log, threads>>
    \/ \E n \in RequestNames, e \in Emails : unregister(n, e) /\ UNCHANGED <<log, threads>>

Spec == Init /\ [][Next]_vars

\* the same requests, seen by a client that records its last three exchanges
NextLog ==
    \/ root /\ Logged /\ UNCHANGED threads
    \/ get_activities /\ Logged /\ UNCHANGED threads
    \/ \E n \in RequestNames, e \in Emails : signup_for_activity(n, e) /\ Logged /\ UNCHANGED threads
    \/ \E n \in RequestNames, e \in Emails : unregister(n, e) /\ Logged /\ UNCHANGED threads

SpecLog == Init /\ [][NextLog]_vars

\* the seeded activity with the fewest places
SmallestActivity == "Tennis Team"

\* a class roll as long as that activity's max_participants
Roll ==
    <<"student1@mergington.edu", "student2@mergington.edu",
      "student3@mergington.edu", "student4@mergington.edu",
      "student5@mergington.edu", "student6@mergington.edu",
      "student7@mergington.edu", "student8@mergington.edu",
      "student9@mergington.edu", "student10@mergington.edu">>

\* the first student of the roll who is not yet signed up for the activity
NextOnRoll ==
    {Roll[i] : i \in {j \in 1..Len(Roll) :
        /\ ~Contains(activities[SmallestActivity].participants, Roll[j])
        /\ \A k \in 1..(j - 1) :
               Contains(activities[SmallestActivity].participants, Roll[k])}}

\* requests that fill one activity: the class signs up in roll order while
\* the other students sign up whenever they like
NextFill ==
    \/ \E e \in NextOnRoll :
           signup_for_activity(SmallestActivity, e) /\ UNCHANGED <<log, threads>>
    \/ \E e \in Emails :
           signup_for_activity(SmallestActivity, e) /\ UNCHANGED <<log, threads>>
    \/ get_activities /\ UNCHANGED <<log, threads>>

SpecFill == Init /\ [][NextFill]_vars

(***************************************************************************)
(* signup_for_activity in worker threads.  The endpoint is a plain `def`,  *)
(* so the framework runs each call in a thread of its pool; a thread       *)
(* switch can fall between any two statements, while one `in` test and one *)
(* list.append are each a single step.                                     *)
(***************************************************************************)
\* a worker thread takes a signup request
receive(t, activity_name, email) ==
    /\ threads[t].pc = "idle"
    /\ Endpoint(SignupRequest(activity_name, email)) = "signup_for_activity"
    /\ threads' = [threads EXCEPT ![t] =
                       Thread("check_exists", activity_name, email, <<>>, NoResponse)]
    /\ UNCHANGED <<activities, request, response, before, log, signups>>

\* if activity_name not in activities: raise 404; activity = activities[...]
check_exists(t) ==
    LET th == threads[t]
    IN  /\ th.pc = "check_exists"
        /\ threads' = [threads EXCEPT ![t] =
               IF th.name \notin DOMAIN activities
               THEN Thread("done", th.name, th.email, <<>>,
                           HTTPException(404, ActivityNotFound))
               ELSE Thread("check_duplicate", th.name, th.email, <<>>, NoResponse)]
        /\ UNCHANGED <<activities, request, response, before, log, signups>>

\* if email in activity["participants"]: raise 400
check_duplicate(t) ==
    LET th == threads[t]
        lst == activities[th.name].participants
    IN  /\ th.pc = "check_duplicate"
        /\ threads' = [threads EXCEPT ![t] =
               IF Contains(lst, th.email)
               THEN Thread("done", th.name, th.email, lst,
                           HTTPException(400, AlreadySignedUp))
               ELSE Thread("append", th.name, th.email, lst, NoResponse)]
        /\ UNCHANGED <<activities, request, response, before, log, signups>>

\* an append that looks again and skips an email that is already there
append_Recheck(t) ==
    LET th == threads[t]
    IN  /\ th.pc = "append"
        /\ activities' =
               IF Contains(activities[th.name].participants, th.email)
               THEN activities
               ELSE [activities EXCEPT ![th.name].participants = Append(@, th.email)]
        /\ threads' = [threads EXCEPT ![t] =
               Thread("done", th.name, th.email, th.seen,
                      SignedUp(th.email, th.name))]
        /\ UNCHANGED <<request, response, before, log, signups>>

\* an append that writes back the list as the duplicate check read it
\* (participants = participants + [email] on a copy)
append_Stale(t) ==
    LET th == threads[t]
    IN  /\ th.pc = "append"
        /\ activities' = [activities EXCEPT ![th.name].participants =
                                               Append(th.seen, th.email)]
        /\ threads' = [threads EXCEPT ![t] =
               Thread("done", th.name, th.email, th.seen,
                      SignedUp(th.email, th.name))]
        /\ UNCHANGED <<request, response, before, log, signups>>

\* activity["participants"].append(email); return {"message": ...}
append(t) ==
    LET th == threads[t]
    IN  /\ th.pc = "append"
        /\ activities' = [activities EXCEPT ![th.name].participants =
                                               Append(@, th.email)]
        /\ threads' = [threads EXCEPT ![t] =
               Thread("done", th.name, th.email, th.seen,
                      SignedUp(th.email, th.name))]
        /\ UNCHANGED <<request, response, before, log, signups>>

\* each worker thread handles one signup request
NextThreads ==
    \/ \E t \in Threads, n \in RequestNames, e \in Emails : receive(t, n, e)
    \/ \E t \in Threads : check_exists(t)
    \/ \E t \in Threads : check_duplicate(t)
    \/ \E t \in Threads : append(t)

SpecThreads == Init /\ [][NextThreads]_vars

(***************************************************************************)
(* Properties.                                                             *)
(***************************************************************************)
\* the last request was signup(a, e)
IsSignup(a, e) == request = SignupRequest(a, e)

\* the last request was unregister(a, e)
IsUnregister(a, e) == request = UnregisterRequest(a, e)

\* C1: a signup of an email that is not among the participants of a seeded
\* activity is answered 200 with the message "Signed up {e} for {a}", the
\* email is among the activity's participants afterwards, and a GET
\* /activities that follows lists it there.
SignupAddsParticipant ==
    /\ [](\A a \in SeedNames, e \in Emails :
            (IsSignup(a, e) /\ ~Contains(before[a].participants, e))
                => /\ response.status = 200
                   /\ response.message = <<"Signed", "up", e, "for", a>>
                   /\ Contains(activities[a].participants, e))
    /\ [][\A a \in SeedNames, e \in Emails :
            (/\ IsSignup(a, e)
             /\ ~Contains(before[a].participants, e)
             /\ request' = ListRequest)
                => Contains(response'.body[a].participants, e)]_vars

SignupAddsParticipantWitness ==
    /\ IsSignup("Tennis Team", "a@x.edu")
    /\ ~Contains(before["Tennis Team"].participants, "a@x.edu")
    /\ response.status = 200
    /\ Contains(activities["Tennis Team"].participants, "a@x.edu")

\* C2: a signup of an email that is already among the activity's
\* participants is answered 400 "Student already signed up for this
\* activity" and leaves the registry as it was, the email in the list once.
DuplicateSignupRejected ==
    \A a \in SeedNames, e \in Emails :
        (IsSignup(a, e) /\ Contains(before[a].participants, e))
            => /\ response.status = 400
               /\ response.detail = AlreadySignedUp
               /\ activities = before
               /\ Count(activities[a].participants, e) = 1

DuplicateSignupRejectedWitness ==
    /\ IsSignup("Basketball Club", "b@x.edu")
    /\ Contains(before["Basketball Club"].participants, "b@x.edu")
    /\ response.status = 400

\* C3: a signup for a name that is no key of the registry is answered 404
\* "Activity not found" and leaves the key set and every participants list
\* as they were.
UnknownActivitySignupRejected ==
    \A n \in RequestNames \ DOMAIN before, e \in Emails :
        IsSignup(n, e)
            => /\ response.status = 404
               /\ response.detail = ActivityNotFound
               /\ DOMAIN activities = DOMAIN before
               /\ \A a \in DOMAIN before :
                      activities[a].participants = before[a].participants
               /\ activities = before

UnknownActivitySignupRejectedWitness ==
    /\ IsSignup("NoSuchClub", "a@x.edu")
    /\ "NoSuchClub" \notin DOMAIN before
    /\ response.status = 404
    /\ \E a \in SeedNames : Len(activities[a].participants) > 0

\* C4: an unregister of an email that is among the participants of a seeded
\* activity is answered 200 with a message naming the email and the
\* activity, and the email is no longer among the participants afterwards.
UnregisterRemovesParticipant ==
    \A a \in SeedNames, e \in Emails :
        (IsUnregister(a, e) /\ Contains(before[a].participants, e))
            => /\ response.status = 200
               /\ Contains(response.message, e)
               /\ Contains(response.message, a)
               /\ ~Contains(activities[a].participants, e)

\* C5: an unregister of an email that is not among the participants of a
\* seeded activity is answered 400 with a detail containing "not signed up"
\* and leaves the registry as it was.
UnregisterAbsentRejected ==
    \A a \in SeedNames, e \in Emails :
        (IsUnregister(a, e) /\ ~Contains(before[a].participants, e))
            => /\ response.status = 400
               /\ IsInfix(<<"not", "signed", "up">>, response.detail)
               /\ activities = before

\* C6: an unregister for a name that is no key of the registry is answered
\* 404 with a detail containing "Activity not found" and leaves the registry
\* as it was.
UnknownActivityUnregisterRejected ==
    \A n \in RequestNames \ DOMAIN before, e \in Emails :
        IsUnregister(n, e)
            => /\ response.status = 404
               /\ IsInfix(<<"Activity", "not", "found">>, response.detail)
               /\ activities = before

\* C7: when the last three requests were signup(a, e) with e not signed up
\* for a, unregister(a, e) and signup(a, e), each of the three was answered
\* 200 and e is among a's participants exactly once.
SignupUnregisterSignupSucceeds ==
    \A a \in SeedNames, e \in Emails :
        (/\ Len(log) = 3
         /\ log[1].request = SignupRequest(a, e)
         /\ ~log[1].member
         /\ log[2].request = UnregisterRequest(a, e)
         /\ log[3].request = SignupRequest(a, e))
            => /\ \A i \in 1..3 : log[i].status = 200
               /\ Count(activities[a].participants, e) = 1

\* C8: no activity's participants list holds the same email more than once.
NoDuplicateParticipants ==
    \A a \in DOMAIN activities, e \in Emails :
        Count(activities[a].participants, e) <= 1

NoDuplicateParticipantsWitness ==
    /\ IsSignup("Basketball Club", "a@x.edu")
    /\ response.status = 400
    /\ Len(activities["Basketball Club"].participants) = NumEmails
    /\ Count(activities["Basketball Club"].participants, "a@x.edu") = 1

\* C9: a signup for a seeded activity a succeeds exactly when the email is
\* not among a's participants, whatever the other activities hold: an email
\* that is among b's participants and not among a's is signed up for a and
\* is afterwards among the participants of both.
SignupIndependentOfOtherActivities ==
    \A a \in SeedNames, e \in Emails :
        IsSignup(a, e)
            => /\ response.status = 200 <=> ~Contains(before[a].participants, e)
               /\ \A b \in SeedNames \ {a} :
                      (/\ Contains(before[b].participants, e)
                       /\ ~Contains(before[a].participants, e))
                          => /\ response.status = 200
                             /\ Contains(activities[a].participants, e)
                             /\ Contains(activities[b].participants, e)

SignupIndependentOfOtherActivitiesWitness ==
    /\ IsSignup("Tennis Team", "b@x.edu")
    /\ Contains(before["Basketball Club"].participants, "b@x.edu")
    /\ ~Contains(before["Tennis Team"].participants, "b@x.edu")
    /\ response.status = 200
    /\ Contains(activities["Tennis Team"].participants, "b@x.edu")
    /\ Contains(activities["Basketball Club"].participants, "b@x.edu")

\* C10: GET /activities can be served in every state; it is answered 200
\* with the registry as it is (every seeded name with its description,
\* schedule, max_participants and current participants) and leaves the
\* registry as it was.
ListReturnsRegistry ==
    /\ ENABLED (get_activities /\ UNCHANGED <<log, threads>>)
    /\ request = ListRequest
          => /\ response.status = 200
             /\ response.body = activities
             /\ activities = before
             /\ DOMAIN response.body = SeedNames
             /\ \A n \in SeedNames :
                    /\ response.body[n].description = Seed[n].description
                    /\ response.body[n].schedule = Seed[n].schedule
                    /\ response.body[n].max_participants = Seed[n].max_participants
                    /\ response.body[n].participants = before[n].participants

ListReturnsRegistryWitness ==
    /\ request = ListRequest
    /\ response.status = 200
    /\ response.body = activities
    /\ Len(activities["Tennis Team"].participants) = NumEmails
    /\ Len(activities["Basketball Club"].participants) > 0

\* C12: the registry's key set is the seeded set of names and every
\* activity's description, schedule and max_participants are the seeded
\* ones, after successful and failed requests alike: only participants
\* lists change.
RegistryShapeFixed ==
    /\ DOMAIN activities = SeedNames
    /\ \A n \in SeedNames :
           /\ activities[n].description = Seed[n].description
           /\ activities[n].schedule = Seed[n].schedule
           /\ activities[n].max_participants = Seed[n].max_participants
           /\ activities[n] = [before[n] EXCEPT !.participants =
                                                  activities[n].participants]

RegistryShapeFixedWitness ==
    /\ IsSignup("Basketball Club", "a@x.edu")
    /\ response.status = 200
    /\ activities # before
    /\ Len(activities["Tennis Team"].participants) = NumEmails
    /\ activities["Basketball Club"].max_participants = 15

\* C13: GET / can be served in every state; it is answered with a 307
\* redirect to /static/index.html and leaves the registry as it was.
RootRedirectsToStatic ==
    /\ ENABLED (root /\ UNCHANGED <<log, threads>>)
    /\ request = RootRequest
          => /\ response.status = 307
             /\ response.location = "/static/index.html"
             /\ activities = before

RootRedirectsToStaticWitness ==
    /\ request = RootRequest
    /\ response.status = 307
    /\ Len(activities["Basketball Club"].participants) > 0

\* e is among the participants of activity a in registry reg
SignedUpFor(reg, a, e) == Contains(reg[a].participants, e)

\* C15: an email becomes a participant of an activity only by a successful
\* signup of that email for that activity, and stops being one only by a
\* successful unregister of that email from that activity; any other
\* request leaves the membership as it was.
MembershipChangesOnlyByOwnRequest ==
    \A a \in SeedNames, e \in Emails :
        /\ (~SignedUpFor(before, a, e) /\ SignedUpFor(activities, a, e))
               => (IsSignup(a, e) /\ response.status = 200)
        /\ (SignedUpFor(before, a, e) /\ ~SignedUpFor(activities, a, e))
               => (IsUnregister(a, e) /\ response.status = 200)
        /\ ~(\/ IsSignup(a, e) /\ response.status = 200
             \/ IsUnregister(a, e) /\ response.status = 200)
               => (SignedUpFor(activities, a, e) <=> SignedUpFor(before, a, e))

MembershipChangesOnlyByOwnRequestWitness ==
    /\ IsSignup("Tennis Team", "b@x.edu")
    /\ response.status = 200
    /\ SignedUpFor(before, "Tennis Team", "a@x.edu")
    /\ SignedUpFor(activities, "Tennis Team", "a@x.edu")
    /\ ~SignedUpFor(before, "Basketball Club", "b@x.edu")
    /\ ~SignedUpFor(activities, "Basketball Club", "b@x.edu")

\* C16: a successful signup leaves the list as it was with the email added
\* at the end, so every activity's participants list is the sequence of its
\* successful signups in the order they occurred.
SignupAppendsInOrder ==
    /\ \A a \in SeedNames, e \in Emails :
           (IsSignup(a, e) /\ response.status = 200)
               => activities[a].participants = Append(before[a].participants, e)
    /\ \A a \in SeedNames : activities[a].participants = signups[a]

SignupAppendsInOrderWitness ==
    /\ IsSignup("Tennis Team", "a@x.edu")
    /\ response.status = 200
    /\ before["Tennis Team"].participants = <<"b@x.edu">>
    /\ activities["Tennis Team"].participants = <<"b@x.edu", "a@x.edu">>
    /\ signups["Tennis Team"] = <<"b@x.edu", "a@x.edu">>

\* every email a client of the model uses
AllEmails == Emails \cup {Roll[i] : i \in 1..Len(Roll)}

\* C11: a signup of a new email for a seeded activity that already has
\* max_participants or more participants is answered 200 and the email is
\* added, the list then being longer than max_participants.
SignupIgnoresCapacity ==
    \A a \in SeedNames, e \in AllEmails :
        (/\ IsSignup(a, e)
         /\ ~Contains(before[a].participants, e)
         /\ Len(before[a].participants) >= before[a].max_participants)
            => /\ response.status = 200
               /\ Contains(activities[a].participants, e)
               /\ Len(activities[a].participants) > activities[a].max_participants

SignupIgnoresCapacityWitness ==
    /\ IsSignup(SmallestActivity, "a@x.edu")
    /\ ~Contains(before[SmallestActivity].participants, "a@x.edu")
    /\ Len(before[SmallestActivity].participants)
           > before[SmallestActivity].max_participants
    /\ response.status = 200
    /\ Len(activities[SmallestActivity].participants)
           > activities[SmallestActivity].max_participants + 1

\* thread t has finished a signup of e for a
Finished(t, a, e) ==
    /\ threads[t].pc = "done"
    /\ threads[t].name = a
    /\ threads[t].email = e

\* C14: when two threads sign up the same email for the same activity and
\* both pass the duplicate check (each read a list without the email), both
\* answer 200 and the email is in the list once per such thread, so twice
\* or more.
ConcurrentSameSignupDuplicates ==
    \A a \in SeedNames, e \in Emails :
        /\ Count(activities[a].participants, e) =
               Cardinality({t \in Threads :
                   Finished(t, a, e) /\ threads[t].resp.status = 200})
        /\ \A t1 \in Threads : \A t2 \in Threads \ {t1} :
               (/\ Finished(t1, a, e) /\ ~Contains(threads[t1].seen, e)
                /\ Finished(t2, a, e) /\ ~Contains(threads[t2].seen, e))
                   => /\ threads[t1].resp.status = 200
                      /\ threads[t2].resp.status = 200
                      /\ Count(activities[a].participants, e) >= 2

ConcurrentSameSignupDuplicatesWitness ==
    /\ Finished(1, "Tennis Team", "a@x.edu")
    /\ Finished(2, "Tennis Team", "a@x.edu")
    /\ threads[1].seen = <<>>
    /\ threads[2].seen = <<>>
    /\ threads[1].resp = SignedUp("a@x.edu", "Tennis Team")
    /\ threads[2].resp = SignedUp("a@x.edu", "Tennis Team")
    /\ activities["Tennis Team"].participants = <<"a@x.edu", "a@x.edu">>

\* no thread other than t1 and t2 has a request for activity a with e1 or e2
OnlySignups(t1, t2, a, e1, e2) ==
    \A t \in Threads \ {t1, t2} :
        ~(threads[t].name = a /\ threads[t].email \in {e1, e2})

\* C17: when two threads sign up two distinct emails for the same seeded
\* activity, neither email being signed up and no other request signing
\* them up, both answer 200 and each email is in the list exactly once,
\* whatever the interleaving.
ConcurrentDistinctSignupsBothKept ==
    \A a \in SeedNames, e1 \in Emails, t1 \in Threads :
        \A e2 \in Emails \ {e1}, t2 \in Threads \ {t1} :
            (/\ Finished(t1, a, e1)
             /\ Finished(t2, a, e2)
             /\ OnlySignups(t1, t2, a, e1, e2))
                => /\ threads[t1].resp.status = 200
                   /\ threads[t2].resp.status = 200
                   /\ Count(activities[a].participants, e1) = 1
                   /\ Count(activities[a].participants, e2) = 1

ConcurrentDistinctSignupsBothKeptWitness ==
    /\ Finished(1, "Tennis Team", "a@x.edu")
    /\ Finished(2, "Tennis Team", "b@x.edu")
    /\ threads[1].seen = <<>>
    /\ threads[2].seen = <<>>
    /\ threads[1].resp.status = 200
    /\ threads[2].resp.status = 200
    /\ activities["Tennis Team"].participants = <<"b@x.edu", "a@x.edu">>

====
